---- MODULE Spec2Model ----
(***************************************************************************)
(* Three-phase commit testbed: coordinator.py (transaction driver,         *)
(* inbound handler, recovery) and participant.py (message handlers,        *)
(* operator commands, timeout threads, recovery).                          *)
(*                                                                         *)
(* Granularity: a thread's step runs from one blocking point (socket       *)
(* exchange, time.sleep, lock acquisition) to the next.  A one-shot TCP    *)
(* exchange is one step: the sender's write, the receiver's handler and    *)
(* the reply happen together.  Timeout threads fire at any moment after    *)
(* they were armed.                                                        *)
(***************************************************************************)
EXTENDS Integers, Sequences, FiniteSets, TLC

\* ---- bounds of the model ----
NumProcs == 2
MaxTx == 1
MaxConcurrent == 2
NumData == 1
MaxWait == 1
MaxCrashes == 1
MaxRejected == 1
MaxHistory == 2
NumReplayTx == 2
NumReplayData == 2

Procs == 1..NumProcs
TxIds == 1..MaxConcurrent
DataVals == 1..NumData

None == <<>>

VARIABLES
    \* coordinator.py, Coordinator.__init__
    participants,          \* keys of self.participants, in insertion order
    transactions,          \* self.transactions: tx id -> record
    transaction_history,   \* self.transaction_history
    crashed,               \* self.crashed
    \* coordinator threads
    drv,                   \* one execute_transaction thread per transaction
    rec,                   \* the command thread while inside _recover_coordinator
    sent,                  \* protocol messages written to a participant socket
    crashes,               \* how often the operator has typed "crash" so far
    rejected,              \* execute_transaction calls that returned False at entry
    \* participant.py, Participant.__init__ (one entry per participant)
    waited_transactions,
    prepared_transactions,
    committed_transactions,
    aborted_transactions,
    p_crashed,
    pending_vote,
    pending_commit,
    pending_abort,
    failure_rate,
    timers                 \* armed timeout threads: <<kind, tx>>

cvars == <<participants, transactions, transaction_history, crashed>>
tvars == <<drv, rec, sent, crashes, rejected>>
psets == <<waited_transactions, prepared_transactions, committed_transactions,
           aborted_transactions>>
pslots == <<pending_vote, pending_commit, pending_abort>>
pvars == <<psets, pslots, p_crashed, failure_rate, timers>>
vars == <<cvars, tvars, pvars>>

\* ---- helpers ----
Range(s) == {s[i] : i \in 1..Len(s)}

Put(f, k, v) == [x \in (DOMAIN f) \cup {k} |-> IF x = k THEN v ELSE f[x]]

NoDict == [p \in Procs |-> "none"]

DictLen(d) == Cardinality({p \in Procs : d[p] # "none"})

Terminal(s) == s \in {"COMMITTED", "ABORTED"}

\* Mutant: every entry is logged as ABORTED.
HistoryEntryAlwaysAborted(t, st, d) ==
    [transaction_id |-> t, status |-> "ABORTED", data |-> d]

HistoryEntry(t, st, d) == [transaction_id |-> t, status |-> st, data |-> d]

\* ======================= coordinator: inbound frames =======================

\* Mutant: REGISTER appends the id even if it is registered already.
RegisterAlwaysAppends(pid) == Append(participants, pid)

\* REGISTER|pid|host|port: upsert into self.participants (a dict keeps the
\* position of a key that is already present).  Served also while crashed.
Register(pid) ==
    IF pid \in Range(participants) THEN participants ELSE Append(participants, pid)

\* Mutant: a VOTE_RESPONSE is handled while the coordinator is crashed.
OnVoteResponseWhileCrashed(pid, mtype, t) ==
    IF t \notin DOMAIN transactions THEN transactions
    ELSE IF mtype = "CANCOMMIT_VOTE_YES"
         THEN [transactions EXCEPT ![t].votes[pid] = "yes"]
    ELSE IF mtype = "CANCOMMIT_VOTE_NO"
         THEN [transactions EXCEPT ![t].votes[pid] = "no"]
    ELSE IF mtype = "PRECOMMIT_VOTE_YES"
         THEN [transactions EXCEPT ![t].votep[pid] = "yes"]
    ELSE [transactions EXCEPT ![t].votep[pid] = "no"]

\* VOTE_RESPONSE|pid|json: refused while crashed, ignored for an unknown id.
OnVoteResponse(pid, mtype, t) ==
    IF crashed \/ t \notin DOMAIN transactions THEN transactions
    ELSE IF mtype = "CANCOMMIT_VOTE_YES"
         THEN [transactions EXCEPT ![t].votes[pid] = "yes"]
    ELSE IF mtype = "CANCOMMIT_VOTE_NO"
         THEN [transactions EXCEPT ![t].votes[pid] = "no"]
    ELSE IF mtype = "PRECOMMIT_VOTE_YES"
         THEN [transactions EXCEPT ![t].votep[pid] = "yes"]
    ELSE [transactions EXCEPT ![t].votep[pid] = "no"]

\* ACK_RESPONSE|pid|json: refused while crashed, ignored for an unknown id.
OnAckResponse(pid, mtype, t) ==
    IF crashed \/ t \notin DOMAIN transactions THEN transactions
    ELSE [transactions EXCEPT ![t].acks[pid] = mtype]

\* ======================= participant: inbound messages =====================

AbortTypes == {"CANCOMMIT_ABORT", "PRECOMMIT_ABORT", "ABORT"}

\* Outcomes of the two random.random() draws: "no" (no injected failure),
\* "entry" (_process_message), "handler" (_handle_cancommit/_handle_precommit).
Injections(p, mtype) ==
    IF failure_rate[p] = "zero" THEN {"no"}
    ELSE {"no", "entry"} \cup
         (IF mtype \in {"CANCOMMIT", "PRECOMMIT"} THEN {"handler"} ELSE {})

\* Mutant: the prepared set is looked up before the committed map.
QueryStatePreparedFirst(p, t) ==
    IF t \in prepared_transactions[p] THEN "PREPARED"
    ELSE IF t \in DOMAIN committed_transactions[p] THEN "COMMITTED"
    ELSE IF t \in waited_transactions[p] THEN "WAITED"
    ELSE IF t \in aborted_transactions[p] THEN "ABORTED"
    ELSE "UNKNOWN"

\* _handle_query_state: the status reported for a transaction.
QueryState(p, t) ==
    IF t \in DOMAIN committed_transactions[p] THEN "COMMITTED"
    ELSE IF t \in prepared_transactions[p] THEN "PREPARED"
    ELSE IF t \in waited_transactions[p] THEN "WAITED"
    ELSE IF t \in aborted_transactions[p] THEN "ABORTED"
    ELSE "UNKNOWN"

\* What the participant writes back on the coordinator's connection.
PReply(p, mtype, t, inj) ==
    IF p_crashed[p] THEN "none"
    ELSE IF inj = "entry"
         THEN (IF mtype = "CANCOMMIT" THEN "CANCOMMIT_VOTE_NO" ELSE "none")
    ELSE IF inj = "handler"
         THEN (IF mtype = "CANCOMMIT" THEN "CANCOMMIT_VOTE_NO"
               ELSE "PRECOMMIT_VOTE_NO")
    ELSE IF mtype = "COMMIT" /\ t \notin prepared_transactions[p] THEN "ACK_ABORT"
    ELSE IF mtype = "QUERY_STATE" THEN QueryState(p, t)
    ELSE "none"

Arm(p, kind, t) == timers' = [timers EXCEPT ![p] = @ \cup {<<kind, t>>}]

HandleVoteRequest(p, kind, t, d) ==
    /\ pending_vote' = [pending_vote EXCEPT ![p] = <<t, d>>]
    /\ Arm(p, kind, t)
    /\ UNCHANGED <<psets, pending_commit, pending_abort, p_crashed, failure_rate>>

\* Mutant: COMMIT is stored and its timer armed whether prepared or not.
HandleCommitUnprepared(p, t, d) ==
    /\ pending_commit' = [pending_commit EXCEPT ![p] = <<t, d>>]
    /\ Arm(p, "ack_commit", t)
    /\ UNCHANGED <<psets, pending_vote, pending_abort, p_crashed, failure_rate>>

HandleCommit(p, t, d) ==
    IF t \notin prepared_transactions[p] THEN UNCHANGED pvars
    ELSE /\ pending_commit' = [pending_commit EXCEPT ![p] = <<t, d>>]
         /\ Arm(p, "ack_commit", t)
         /\ UNCHANGED <<psets, pending_vote, pending_abort, p_crashed, failure_rate>>

HandleAbort(p, t, d) ==
    /\ pending_abort' = [pending_abort EXCEPT ![p] = <<t, d>>]
    /\ Arm(p, "ack_abort", t)
    /\ UNCHANGED <<psets, pending_vote, pending_commit, p_crashed, failure_rate>>

\* Mutant: the listener hands the message to its handler while crashed.
PHandleWhileCrashed(p, mtype, t, d, inj) ==
    IF inj # "no" THEN UNCHANGED pvars
    ELSE IF mtype = "CANCOMMIT" THEN HandleVoteRequest(p, "cancommit", t, d)
    ELSE IF mtype = "PRECOMMIT" THEN HandleVoteRequest(p, "precommit", t, d)
    ELSE IF mtype = "COMMIT" THEN HandleCommit(p, t, d)
    ELSE IF mtype \in AbortTypes THEN HandleAbort(p, t, d)
    ELSE UNCHANGED pvars

\* _handle_request + _process_message: the effect of one inbound message.
PHandle(p, mtype, t, d, inj) ==
    IF p_crashed[p] \/ inj # "no" THEN UNCHANGED pvars
    ELSE IF mtype = "CANCOMMIT" THEN HandleVoteRequest(p, "cancommit", t, d)
    ELSE IF mtype = "PRECOMMIT" THEN HandleVoteRequest(p, "precommit", t, d)
    ELSE IF mtype = "COMMIT" THEN HandleCommit(p, t, d)
    ELSE IF mtype \in AbortTypes THEN HandleAbort(p, t, d)
    ELSE UNCHANGED pvars

\* ======================= participant: sending votes and ACKs ===============

\* A VOTE_RESPONSE / ACK_RESPONSE frame written to the coordinator's socket
\* and handled there.
SendVoteResponse(p, mtype, t) ==
    /\ transactions' = OnVoteResponse(p, mtype, t)
    /\ UNCHANGED sent

SendAckResponse(p, mtype, t) ==
    /\ transactions' = OnAckResponse(p, mtype, t)
    /\ UNCHANGED sent

\* _send_cancommit_vote_to_coordinator
SendCancommitVote(p, t, yes) ==
    /\ waited_transactions' =
         IF yes THEN [waited_transactions EXCEPT ![p] = @ \cup {t}]
         ELSE waited_transactions
    /\ UNCHANGED <<prepared_transactions>>
    /\ SendVoteResponse(p,
         IF yes THEN "CANCOMMIT_VOTE_YES" ELSE "CANCOMMIT_VOTE_NO", t)

\* _send_precommit_vote_to_coordinator
SendPrecommitVote(p, t, yes) ==
    /\ waited_transactions' =
         IF yes THEN [waited_transactions EXCEPT ![p] = @ \ {t}]
         ELSE waited_transactions
    /\ prepared_transactions' =
         IF yes THEN [prepared_transactions EXCEPT ![p] = @ \cup {t}]
         ELSE prepared_transactions
    /\ SendVoteResponse(p,
         IF yes THEN "PRECOMMIT_VOTE_YES" ELSE "PRECOMMIT_VOTE_NO", t)

\* Mutant: the id is committed whether it is in prepared or not.
DoCommitUnprepared(p, t, d) ==
    /\ committed_transactions' =
         [committed_transactions EXCEPT ![p] = Put(@, t, d)]
    /\ prepared_transactions' = [prepared_transactions EXCEPT ![p] = @ \ {t}]

\* Mutant: the id is stored in the committed map and stays in prepared.
DoCommitKeepsPrepared(p, t, d) ==
    IF t \in prepared_transactions[p]
    THEN /\ committed_transactions' =
              [committed_transactions EXCEPT ![p] = Put(@, t, d)]
         /\ UNCHANGED prepared_transactions
    ELSE UNCHANGED <<committed_transactions, prepared_transactions>>

\* "Execution submission": prepared -> committed[data], only if prepared.
DoCommit(p, t, d) ==
    IF t \in prepared_transactions[p]
    THEN /\ committed_transactions' =
              [committed_transactions EXCEPT ![p] = Put(@, t, d)]
         /\ prepared_transactions' = [prepared_transactions EXCEPT ![p] = @ \ {t}]
    ELSE UNCHANGED <<committed_transactions, prepared_transactions>>

\* "Execution suspension": drop from prepared, add to aborted.
DoAbort(p, t) ==
    /\ prepared_transactions' = [prepared_transactions EXCEPT ![p] = @ \ {t}]
    /\ aborted_transactions' = [aborted_transactions EXCEPT ![p] = @ \cup {t}]

\* ======================= participant: operator commands ====================

\* _handle_cancommit_vote_command: answers whatever vote request is pending.
P_CancommitVote(p, yes) ==
    /\ pending_vote[p] # None
    /\ pending_vote' = [pending_vote EXCEPT ![p] = None]
    /\ SendCancommitVote(p, pending_vote[p][1], yes)
    /\ UNCHANGED <<participants, transaction_history, crashed, drv, rec, crashes, rejected,
                   committed_transactions, aborted_transactions,
                   pending_commit, pending_abort, p_crashed, failure_rate, timers>>

\* _handle_precommit_vote_command: answers whatever vote request is pending.
P_PrecommitVote(p, yes) ==
    /\ pending_vote[p] # None
    /\ pending_vote' = [pending_vote EXCEPT ![p] = None]
    /\ SendPrecommitVote(p, pending_vote[p][1], yes)
    /\ UNCHANGED <<participants, transaction_history, crashed, drv, rec, crashes, rejected,
                   committed_transactions, aborted_transactions,
                   pending_commit, pending_abort, p_crashed, failure_rate, timers>>

\* _handle_ack_command, "ack commit"
P_AckCommit(p) ==
    /\ pending_commit[p] # None
    /\ pending_commit' = [pending_commit EXCEPT ![p] = None]
    /\ DoCommit(p, pending_commit[p][1], pending_commit[p][2])
    /\ SendAckResponse(p, "ACK_COMMIT", pending_commit[p][1])
    /\ UNCHANGED <<participants, transaction_history, crashed, drv, rec, crashes, rejected,
                   waited_transactions, aborted_transactions,
                   pending_vote, pending_abort, p_crashed, failure_rate, timers>>

\* _handle_ack_command, "ack abort": a pending COMMIT is taken first, else a
\* pending abort.
P_AckAbort(p) ==
    /\ pending_commit[p] # None \/ pending_abort[p] # None
    /\ LET t == IF pending_commit[p] # None THEN pending_commit[p][1]
                ELSE pending_abort[p][1]
       IN /\ DoAbort(p, t)
          /\ SendAckResponse(p, "ACK_ABORT", t)
    /\ IF pending_commit[p] # None
       THEN /\ pending_commit' = [pending_commit EXCEPT ![p] = None]
            /\ UNCHANGED pending_abort
       ELSE /\ pending_abort' = [pending_abort EXCEPT ![p] = None]
            /\ UNCHANGED pending_commit
    /\ UNCHANGED <<participants, transaction_history, crashed, drv, rec, crashes, rejected,
                   waited_transactions, committed_transactions,
                   pending_vote, p_crashed, failure_rate, timers>>

\* _handle_crash
P_Crash(p) ==
    /\ p \in Range(participants)
    /\ ~p_crashed[p]
    /\ p_crashed' = [p_crashed EXCEPT ![p] = TRUE]
    /\ UNCHANGED <<cvars, tvars, psets, pslots, failure_rate, timers>>

\* _set_failure_rate: 0.0, or a rate in (0, 1].
P_SetFailureRate(p, r) ==
    /\ p \in Range(participants)
    /\ failure_rate[p] # r
    /\ failure_rate' = [failure_rate EXCEPT ![p] = r]
    /\ UNCHANGED <<cvars, tvars, psets, pslots, p_crashed, timers>>

\* Participant.start: REGISTER, then the listener runs.
P_Start(p) ==
    /\ p \notin Range(participants)
    /\ participants' = Register(p)
    /\ UNCHANGED <<transactions, transaction_history, crashed, tvars, pvars>>

\* ======================= participant: timeout threads ======================
\* A timeout thread wakes once, at any moment after it was armed.  If its slot
\* is empty or holds another transaction it returns without any effect; only a
\* wake-up that passes the slot check is a step.

StopTimer(p, kind, t) == timers' = [timers EXCEPT ![p] = @ \ {<<kind, t>>}]

\* if self.pending_xxx and self.pending_xxx[0] == transaction_id
SlotHolds(slot, t) == slot # None /\ slot[1] = t

\* _wait_for_cancommit_vote after its sleep
P_CancommitTimeout(p, t) ==
    /\ <<"cancommit", t>> \in timers[p]
    /\ SlotHolds(pending_vote[p], t)
    /\ StopTimer(p, "cancommit", t)
    /\ SendCancommitVote(p, t, FALSE)
    /\ pending_vote' = [pending_vote EXCEPT ![p] = None]
    /\ UNCHANGED <<participants, transaction_history, crashed, drv, rec, crashes, rejected,
                   committed_transactions, aborted_transactions,
                   pending_commit, pending_abort, p_crashed, failure_rate>>

\* _wait_for_precommit_vote after its sleep
P_PrecommitTimeout(p, t) ==
    /\ <<"precommit", t>> \in timers[p]
    /\ SlotHolds(pending_vote[p], t)
    /\ StopTimer(p, "precommit", t)
    /\ SendPrecommitVote(p, t, FALSE)
    /\ pending_vote' = [pending_vote EXCEPT ![p] = None]
    /\ UNCHANGED <<participants, transaction_history, crashed, drv, rec, crashes, rejected,
                   committed_transactions, aborted_transactions,
                   pending_commit, pending_abort, p_crashed, failure_rate>>

\* _wait_for_ack_commit after its sleep
P_AckCommitTimeout(p, t) ==
    /\ <<"ack_commit", t>> \in timers[p]
    /\ SlotHolds(pending_commit[p], t)
    /\ StopTimer(p, "ack_commit", t)
    /\ SendAckResponse(p, "ACK_COMMIT", t)
    /\ DoCommit(p, t, pending_commit[p][2])
    /\ pending_commit' = [pending_commit EXCEPT ![p] = None]
    /\ UNCHANGED <<participants, transaction_history, crashed, drv, rec, crashes, rejected,
                   waited_transactions, aborted_transactions,
                   pending_vote, pending_abort, p_crashed, failure_rate>>

\* _wait_for_ack_abort after its sleep
P_AckAbortTimeout(p, t) ==
    /\ <<"ack_abort", t>> \in timers[p]
    /\ SlotHolds(pending_abort[p], t)
    /\ StopTimer(p, "ack_abort", t)
    /\ SendAckResponse(p, "ACK_ABORT", t)
    /\ DoAbort(p, t)
    /\ pending_abort' = [pending_abort EXCEPT ![p] = None]
    /\ UNCHANGED <<participants, transaction_history, crashed, drv, rec, crashes, rejected,
                   waited_transactions, committed_transactions,
                   pending_vote, pending_commit, p_crashed, failure_rate>>

\* ======================= participant: recovery =============================

\* Mutant: the replay leaves the committed map as it was.
ReplayCommittedSkipsAll(cm, hist) == cm

\* _request_history_from_coordinator, the replay loop: committed map.
RECURSIVE ReplayCommitted(_, _)
ReplayCommitted(cm, hist) ==
    IF hist = <<>> THEN cm
    ELSE ReplayCommitted(
           IF Head(hist).status = "COMMITTED"
           THEN Put(cm, Head(hist).transaction_id, Head(hist).data)
           ELSE cm,
           Tail(hist))

\* Mutant: an ABORTED record toggles the membership in the aborted set.
ReplayAbortedToggles(ab, hist) ==
    LET X == {hist[i].transaction_id :
                i \in {j \in 1..Len(hist) : hist[j].status = "ABORTED"}}
    IN (ab \ X) \cup (X \ ab)

\* the replay loop: aborted set.
ReplayAborted(ab, hist) ==
    ab \cup {hist[i].transaction_id :
               i \in {j \in 1..Len(hist) : hist[j].status = "ABORTED"}}

\* Mutant: only a COMMITTED record takes the id out of the prepared set.
ReplayPreparedCommittedOnly(pr, hist) ==
    pr \ {hist[i].transaction_id :
            i \in {j \in 1..Len(hist) : hist[j].status = "COMMITTED"}}

\* the replay loop: prepared set.
ReplayPrepared(pr, hist) ==
    pr \ {hist[i].transaction_id :
            i \in {j \in 1..Len(hist) :
                     hist[j].status \in {"COMMITTED", "ABORTED"}}}

\* The JSON envelope of protocol.py (Message.to_json, then Message.from_json
\* at the receiver): msg_type, transaction_id and the data payload; payloads
\* are mappings of strings and lists of such records.
ToJson(mtype, tid, data) ==
    [msg_type |-> mtype, transaction_id |-> tid, data |-> data]

\* _handle_participant_connection, HISTORY_REQUEST: the reply carries a copy
\* of the whole history; it is answered while the coordinator is crashed too.
HistoryResponse ==
    ToJson("HISTORY_RESPONSE", "HISTORY", [history |-> transaction_history])

\* _request_history_from_coordinator: the records taken from the reply.
HistoryOf(response) ==
    IF response.msg_type = "HISTORY_RESPONSE" THEN response.data.history
    ELSE <<>>

\* _handle_recover: REGISTER, HISTORY_REQUEST, replay, crashed = False.
P_Recover(p) ==
    /\ p_crashed[p]
    /\ participants' = Register(p)
    /\ LET history == HistoryOf(HistoryResponse)
       IN /\ committed_transactions' = [committed_transactions EXCEPT
                 ![p] = ReplayCommitted(@, history)]
          /\ aborted_transactions' = [aborted_transactions EXCEPT
                 ![p] = ReplayAborted(@, history)]
          /\ prepared_transactions' = [prepared_transactions EXCEPT
                 ![p] = ReplayPrepared(@, history)]
    /\ p_crashed' = [p_crashed EXCEPT ![p] = FALSE]
    /\ UNCHANGED <<transactions, transaction_history, crashed, tvars,
                   waited_transactions, pslots, failure_rate, timers>>

\* ======================= coordinator: execute_transaction ==================

IdleDriver == [pc |-> "idle", i |-> 0, n |-> 0, wait_time |-> 0, loc |-> NoDict,
               all_yes |-> FALSE, msg |-> "none", outcome |-> "none",
               ret |-> "none"]

\* A driver that returned (ret: "true", "false") or died of an exception
\* ("exc"); msg stays the phase-3 message it had chosen, if any.
Returned(t, r) == [IdleDriver EXCEPT !.pc = "done", !.ret = r, !.msg = drv[t].msg]

NewRecord(d) == [data |-> d, participants |-> participants,
                 votes |-> NoDict, votep |-> NoDict, acks |-> NoDict,
                 status |-> "WAITING"]

SetStatus(t, s) == [transactions EXCEPT ![t].status = s]

\* A dict with "missing" stored for the snapshot participants that have no entry.
FillMissing(dict, plist, missing) ==
    [p \in Procs |-> IF dict[p] = "none" /\ p \in Range(plist) THEN missing
                     ELSE dict[p]]

\* all(votes.values())
AllYes(dict) == \A p \in Procs : dict[p] # "no"

\* sum(1 for ack in acks.values() if ack == kind)
SuccessCount(dict, kind) == Cardinality({p \in Procs : dict[p] = kind})

\* _send_message(pid, msg) without force: nothing is written while crashed.
\* Gives the participant-side effect; the reply is PReply under the same inj.
SendMessage(pid, mtype, t, inj) ==
    IF crashed
    THEN /\ UNCHANGED pvars
         /\ UNCHANGED sent
    ELSE /\ sent' = sent \cup {<<mtype, t, pid>>}
         /\ PHandle(pid, mtype, t, transactions[t].data, inj)

SendReply(pid, mtype, t, inj) ==
    IF crashed THEN "none" ELSE PReply(pid, mtype, t, inj)

\* Mutant: an empty registry is not checked.
AcceptsWithoutParticipants == ~crashed

\* The two checks at the entry of execute_transaction: `if self.crashed:
\* return False` and `if not self.participants: return False`.
Accepts == ~crashed /\ participants # <<>>

\* execute_transaction returning False at entry: nothing is created or sent.
D_Reject ==
    /\ rec.pc = "idle"
    /\ ~Accepts
    /\ rejected < MaxRejected
    /\ rejected' = rejected + 1
    /\ UNCHANGED <<cvars, drv, rec, sent, crashes, pvars>>

\* execute_transaction up to the first send: the record is created.
D_Start(d) ==
    /\ rec.pc = "idle"
    /\ Accepts
    /\ Cardinality(DOMAIN transactions) < MaxTx
    /\ LET t == Cardinality(DOMAIN transactions) + 1
       IN /\ transactions' = Put(transactions, t, NewRecord(d))
          /\ drv' = [drv EXCEPT ![t] = [IdleDriver EXCEPT !.pc = "p1_send", !.i = 1]]
    /\ UNCHANGED <<participants, transaction_history, crashed, rec, sent, crashes, rejected, pvars>>

\* One iteration of the CANCOMMIT send loop over participant_list; after the
\* last one the local votes dict replaces the record's.
D_CancommitSend(t) ==
    /\ drv[t].pc = "p1_send"
    /\ LET plist == transactions[t].participants
           pid == plist[drv[t].i]
       IN \E inj \in Injections(pid, "CANCOMMIT") :
            LET reply == SendReply(pid, "CANCOMMIT", t, inj)
                loc2 == IF reply = "CANCOMMIT_VOTE_NO"
                        THEN [drv[t].loc EXCEPT ![pid] = "no"]
                        ELSE drv[t].loc
            IN /\ SendMessage(pid, "CANCOMMIT", t, inj)
               /\ IF drv[t].i = Len(plist)
                  THEN /\ transactions' = [transactions EXCEPT ![t].votes = loc2]
                       /\ drv' = [drv EXCEPT ![t] =
                                    [IdleDriver EXCEPT !.pc = "p1_wait"]]
                  ELSE /\ UNCHANGED transactions
                       /\ drv' = [drv EXCEPT ![t].i = @ + 1, ![t].loc = loc2]
    /\ UNCHANGED <<participants, transaction_history, crashed, rec, crashes, rejected>>

\* One pass of a collection loop: crash check, completeness check, sleep(1).
WaitTick(t, field, next_pc) ==
    /\ IF crashed
       THEN drv' = [drv EXCEPT ![t] = Returned(t, "false")]
       ELSE IF DictLen(transactions[t][field]) = Len(transactions[t].participants)
       THEN drv' = [drv EXCEPT ![t].pc = next_pc, ![t].wait_time = 0]
       ELSE IF drv[t].wait_time + 1 >= MaxWait
       THEN drv' = [drv EXCEPT ![t].pc = next_pc, ![t].wait_time = 0]
       ELSE drv' = [drv EXCEPT ![t].wait_time = @ + 1]
    /\ UNCHANGED <<cvars, rec, sent, crashes, rejected, pvars>>

D_CancommitWait(t) ==
    /\ drv[t].pc = "p1_wait"
    /\ WaitTick(t, "votes", "p1_decide")

\* Missing votes count as NO; status WAITED.
D_CancommitDecide(t) ==
    /\ drv[t].pc = "p1_decide"
    /\ LET votes == FillMissing(transactions[t].votes,
                                transactions[t].participants, "no")
       IN /\ transactions' = [transactions EXCEPT ![t].votes = votes,
                                                  ![t].status = "WAITED"]
          /\ drv' = [drv EXCEPT ![t].pc = "p1_branch", ![t].all_yes = AllYes(votes)]
    /\ UNCHANGED <<participants, transaction_history, crashed, rec, sent, crashes, rejected, pvars>>

\* if all_yes: status PREPARING, else status ABORTING (CANCOMMIT_ABORT).
D_CancommitBranch(t) ==
    /\ drv[t].pc = "p1_branch"
    /\ IF drv[t].all_yes
       THEN /\ transactions' = SetStatus(t, "PREPARING")
            /\ drv' = [drv EXCEPT ![t] = [IdleDriver EXCEPT !.pc = "p2_send", !.i = 1]]
       ELSE /\ transactions' = SetStatus(t, "ABORTING")
            /\ drv' = [drv EXCEPT ![t] =
                 [IdleDriver EXCEPT !.pc = "p3_send", !.i = 1,
                                    !.msg = "CANCOMMIT_ABORT"]]
    /\ UNCHANGED <<participants, transaction_history, crashed, rec, sent, crashes, rejected, pvars>>

\* One iteration of the PRECOMMIT send loop; after the last one the local
\* votep dict replaces the record's.
D_PrecommitSend(t) ==
    /\ drv[t].pc = "p2_send"
    /\ LET plist == transactions[t].participants
           pid == plist[drv[t].i]
       IN \E inj \in Injections(pid, "PRECOMMIT") :
            LET reply == SendReply(pid, "PRECOMMIT", t, inj)
                loc2 == IF reply = "PRECOMMIT_VOTE_NO"
                        THEN [drv[t].loc EXCEPT ![pid] = "no"]
                        ELSE drv[t].loc
            IN /\ SendMessage(pid, "PRECOMMIT", t, inj)
               /\ IF drv[t].i = Len(plist)
                  THEN /\ transactions' = [transactions EXCEPT ![t].votep = loc2]
                       /\ drv' = [drv EXCEPT ![t] =
                                    [IdleDriver EXCEPT !.pc = "p2_wait"]]
                  ELSE /\ UNCHANGED transactions
                       /\ drv' = [drv EXCEPT ![t].i = @ + 1, ![t].loc = loc2]
    /\ UNCHANGED <<participants, transaction_history, crashed, rec, crashes, rejected>>

D_PrecommitWait(t) ==
    /\ drv[t].pc = "p2_wait"
    /\ WaitTick(t, "votep", "p2_decide")

\* Missing votes count as NO; status PREPARED.
D_PrecommitDecide(t) ==
    /\ drv[t].pc = "p2_decide"
    /\ LET votep == FillMissing(transactions[t].votep,
                                transactions[t].participants, "no")
       IN /\ transactions' = [transactions EXCEPT ![t].votep = votep,
                                                  ![t].status = "PREPARED"]
          /\ drv' = [drv EXCEPT ![t].pc = "p2_branch", ![t].all_yes = AllYes(votep)]
    /\ UNCHANGED <<participants, transaction_history, crashed, rec, sent, crashes, rejected, pvars>>

\* Crash check, then status COMMITTING or ABORTING (PRECOMMIT_ABORT).
D_PrecommitBranch(t) ==
    /\ drv[t].pc = "p2_branch"
    /\ IF crashed
       THEN /\ drv' = [drv EXCEPT ![t] = Returned(t, "false")]
            /\ UNCHANGED transactions
       ELSE /\ transactions' = SetStatus(t,
                 IF drv[t].all_yes THEN "COMMITTING" ELSE "ABORTING")
            /\ drv' = [drv EXCEPT ![t] =
                 [IdleDriver EXCEPT !.pc = "p3_send", !.i = 1,
                                    !.msg = IF drv[t].all_yes THEN "COMMIT"
                                            ELSE "PRECOMMIT_ABORT"]]
    /\ UNCHANGED <<participants, transaction_history, crashed, rec, sent, crashes, rejected, pvars>>

\* The ACK a phase-3 message asks for.
AckFor(msg) == IF msg = "COMMIT" THEN "ACK_COMMIT" ELSE "ACK_ABORT"

\* A synchronous reply is kept only if it is the ACK asked for.
FoldAck(loc, pid, msg, reply) ==
    IF reply = AckFor(msg) THEN [loc EXCEPT ![pid] = reply] ELSE loc

\* One iteration of a phase-3 send loop of the driver.  The loop iterates
\* self.participants.keys(): the first iteration creates the iterator (n is the
\* dict size then); every later iteration, the one that ends the loop
\* included, raises RuntimeError (dictionary changed size during iteration) if
\* a key was added since, and the thread dies.  When the loop ends the local
\* acks dict replaces the record's.
Phase3Send(t) ==
    /\ drv[t].pc = "p3_send"
    /\ LET n == IF drv[t].i = 1 THEN Len(participants) ELSE drv[t].n
           msg == drv[t].msg
       IN IF Len(participants) # n
          THEN /\ drv' = [drv EXCEPT ![t] = Returned(t, "exc")]
               /\ UNCHANGED <<transactions, sent, pvars>>
          ELSE IF drv[t].i > n
          THEN /\ transactions' = [transactions EXCEPT ![t].acks = drv[t].loc]
               /\ drv' = [drv EXCEPT ![t] =
                    [IdleDriver EXCEPT !.pc = "p3_wait", !.msg = msg]]
               /\ UNCHANGED <<sent, pvars>>
          ELSE IF crashed
          THEN /\ drv' = [drv EXCEPT ![t] = Returned(t, "false")]
               /\ UNCHANGED <<transactions, sent, pvars>>
          ELSE LET pid == participants[drv[t].i]
               IN \E inj \in Injections(pid, msg) :
                    /\ SendMessage(pid, msg, t, inj)
                    /\ UNCHANGED transactions
                    /\ drv' = [drv EXCEPT ![t].i = @ + 1, ![t].n = n,
                         ![t].loc = FoldAck(@, pid, msg,
                                            SendReply(pid, msg, t, inj))]
    /\ UNCHANGED <<participants, transaction_history, crashed, rec, crashes, rejected>>

D_CommitSend(t) == drv[t].msg = "COMMIT" /\ Phase3Send(t)

D_AbortSend(t) == drv[t].msg \in AbortTypes /\ Phase3Send(t)

D_CommitWait(t) ==
    /\ drv[t].pc = "p3_wait" /\ drv[t].msg = "COMMIT"
    /\ WaitTick(t, "acks", "p3_decide")

D_AbortWait(t) ==
    /\ drv[t].pc = "p3_wait" /\ drv[t].msg \in AbortTypes
    /\ WaitTick(t, "acks", "p3_decide")

\* Mutant: one ACK_COMMIT is enough to commit.
CommitOutcomeAnyAck(acks, plist) ==
    IF SuccessCount(acks, "ACK_COMMIT") < 1 THEN "ABORTED" ELSE "COMMITTED"

\* if success_count < len(participant_list): ABORTED else COMMITTED
CommitOutcome(acks, plist) ==
    IF SuccessCount(acks, "ACK_COMMIT") < Len(plist) THEN "ABORTED" ELSE "COMMITTED"

\* Missing ACKs become TIMEOUT; the terminal status is written.
D_CommitDecide(t) ==
    /\ drv[t].pc = "p3_decide" /\ drv[t].msg = "COMMIT"
    /\ LET plist == transactions[t].participants
           acks == FillMissing(transactions[t].acks, plist, "TIMEOUT")
           out == CommitOutcome(acks, plist)
       IN /\ transactions' = [transactions EXCEPT ![t].acks = acks,
                                                  ![t].status = out]
          /\ drv' = [drv EXCEPT ![t].pc = "hist", ![t].outcome = out]
    /\ UNCHANGED <<participants, transaction_history, crashed, rec, sent, crashes, rejected, pvars>>

D_AbortDecide(t) ==
    /\ drv[t].pc = "p3_decide" /\ drv[t].msg \in AbortTypes
    /\ LET plist == transactions[t].participants
           acks == FillMissing(transactions[t].acks, plist, "TIMEOUT")
       IN /\ transactions' = [transactions EXCEPT ![t].acks = acks,
                                                  ![t].status = "ABORTED"]
          /\ drv' = [drv EXCEPT ![t].pc = "hist", ![t].outcome = "ABORTED"]
    /\ UNCHANGED <<participants, transaction_history, crashed, rec, sent, crashes, rejected, pvars>>

\* with self.lock: self.transaction_history.append(...); return
D_History(t) ==
    /\ drv[t].pc = "hist"
    /\ transaction_history' = Append(transaction_history,
           HistoryEntry(t, drv[t].outcome, transactions[t].data))
    /\ drv' = [drv EXCEPT ![t] =
         Returned(t, IF drv[t].outcome = "COMMITTED" THEN "true" ELSE "false")]
    /\ UNCHANGED <<participants, transactions, crashed, rec, sent, crashes, rejected, pvars>>

\* ======================= coordinator: crash and recovery ===================

IdleRecovery == [pc |-> "idle", todo |-> <<>>, i |-> 0, n |-> 0, wait_time |-> 0,
                 loc |-> NoDict, msg |-> "none", outcome |-> "none"]

\* _handle_crash (the command thread is not inside recover)
C_Crash ==
    /\ rec.pc = "idle"
    /\ ~crashed
    /\ crashes < MaxCrashes
    /\ crashed' = TRUE
    /\ crashes' = crashes + 1
    /\ UNCHANGED <<participants, transactions, transaction_history, drv, rec,
                   sent, rejected, pvars>>

\* The statuses _recover_coordinator selects.
Unfinished == {"WAITING", "WAITED", "PREPARING", "PREPARED"}

RECURSIVE SeqOfSet(_)
SeqOfSet(S) ==
    IF S = {} THEN <<>>
    ELSE LET m == CHOOSE x \in S : \A y \in S : x <= y
         IN <<m>> \o SeqOfSet(S \ {m})

\* _handle_recover + the scan of _recover_coordinator; crashed = False.
C_Recover ==
    /\ rec.pc = "idle"
    /\ crashed
    /\ crashed' = FALSE
    /\ LET todo == SeqOfSet({t \in DOMAIN transactions :
                               transactions[t].status \in Unfinished})
       IN rec' = IF todo = <<>> THEN IdleRecovery
                 ELSE [IdleRecovery EXCEPT !.pc = "probe", !.todo = todo]
    /\ UNCHANGED <<participants, transactions, transaction_history, drv, sent,
                   crashes, rejected, pvars>>

\* QUERY_STATE to every registered snapshot participant (force send).  The
\* replies are only counted and printed.
R_Probe ==
    /\ rec.pc = "probe"
    /\ LET t == Head(rec.todo)
       IN sent' = sent \cup {<<"QUERY_STATE", t, p>> :
                    p \in Range(transactions[t].participants) \cap Range(participants)}
    /\ rec' = [rec EXCEPT !.pc = "decide"]
    /\ UNCHANGED <<cvars, drv, crashes, rejected, pvars>>

\* Mutant: a transaction found in PREPARING or PREPARED is always committed.
RecoveryDecisionIgnoresVotes(tx_info) ==
    IF tx_info.status \in {"WAITING", "WAITED"} THEN "ABORT"
    ELSE IF tx_info.status \in {"PREPARING", "PREPARED"} THEN "COMMIT"
    ELSE IF tx_info.status \in {"COMMITTING", "COMMITTED"} THEN "COMMIT"
    ELSE "ABORT"

\* The decision of _recover_coordinator for tx_info as it is now.
RecoveryDecision(tx_info) ==
    IF tx_info.status \in {"WAITING", "WAITED"} THEN "ABORT"
    ELSE IF tx_info.status \in {"PREPARING", "PREPARED"}
    THEN (IF DictLen(tx_info.votes) = Len(tx_info.participants)
             /\ AllYes(tx_info.votes)
          THEN "COMMIT" ELSE "ABORT")
    ELSE IF tx_info.status \in {"COMMITTING", "COMMITTED"} THEN "COMMIT"
    ELSE "ABORT"

\* The decision, and the entry of _complete_commit / _complete_abort
\* (_complete_abort writes status ABORTING).
R_Decide ==
    /\ rec.pc = "decide"
    /\ LET t == Head(rec.todo)
           msg == RecoveryDecision(transactions[t])
       IN /\ transactions' = IF msg = "ABORT" THEN SetStatus(t, "ABORTING")
                             ELSE transactions
          /\ rec' = [rec EXCEPT !.pc = "send", !.i = 1, !.msg = msg]
    /\ UNCHANGED <<participants, transaction_history, crashed, drv, sent, crashes, rejected,
                   pvars>>

\* recover goes on with the next unfinished transaction, or ends.
NextUnfinished ==
    IF Tail(rec.todo) = <<>> THEN IdleRecovery
    ELSE [IdleRecovery EXCEPT !.pc = "probe", !.todo = Tail(rec.todo)]

\* One iteration of the send loop of _complete_commit / _complete_abort over
\* self.participants.keys(), as in Phase3Send.  A RuntimeError ends recover in
\* the command loop; _complete_commit returns when it sees crashed.
R_Send ==
    /\ rec.pc = "send"
    /\ LET t == Head(rec.todo)
           n == IF rec.i = 1 THEN Len(participants) ELSE rec.n
       IN IF Len(participants) # n
          THEN /\ rec' = IdleRecovery
               /\ UNCHANGED <<transactions, sent, pvars>>
          ELSE IF rec.i > n
          THEN /\ transactions' = [transactions EXCEPT ![t].acks = rec.loc]
               /\ rec' = [rec EXCEPT !.pc = "wait", !.i = 0, !.n = 0,
                                     !.loc = NoDict]
               /\ UNCHANGED <<sent, pvars>>
          ELSE IF crashed /\ rec.msg = "COMMIT"
          THEN /\ rec' = NextUnfinished
               /\ UNCHANGED <<transactions, sent, pvars>>
          ELSE LET pid == participants[rec.i]
               IN \E inj \in Injections(pid, rec.msg) :
                    /\ SendMessage(pid, rec.msg, t, inj)
                    /\ UNCHANGED transactions
                    /\ rec' = [rec EXCEPT !.i = @ + 1, !.n = n,
                         !.loc = FoldAck(@, pid, rec.msg,
                                         SendReply(pid, rec.msg, t, inj))]
    /\ UNCHANGED <<participants, transaction_history, crashed, drv, crashes, rejected>>

\* One pass of the collection loop of _complete_commit / _complete_abort; the
\* target is len(self.participants).
R_Wait ==
    /\ rec.pc = "wait"
    /\ LET t == Head(rec.todo)
       IN IF crashed
          THEN rec' = NextUnfinished
          ELSE IF DictLen(transactions[t].acks) = Len(participants)
          THEN rec' = [rec EXCEPT !.pc = "finish", !.wait_time = 0]
          ELSE IF rec.wait_time + 1 >= MaxWait
          THEN rec' = [rec EXCEPT !.pc = "finish", !.wait_time = 0]
          ELSE rec' = [rec EXCEPT !.wait_time = @ + 1]
    /\ UNCHANGED <<cvars, drv, sent, crashes, rejected, pvars>>

\* TIMEOUT for every registered participant without an ACK; terminal status.
R_Finish ==
    /\ rec.pc = "finish"
    /\ LET t == Head(rec.todo)
           acks == FillMissing(transactions[t].acks, participants, "TIMEOUT")
           out == IF rec.msg = "COMMIT" THEN CommitOutcome(acks, participants)
                  ELSE "ABORTED"
       IN /\ transactions' = [transactions EXCEPT ![t].acks = acks,
                                                  ![t].status = out]
          /\ rec' = [rec EXCEPT !.pc = "hist", !.outcome = out]
    /\ UNCHANGED <<participants, transaction_history, crashed, drv, sent, crashes, rejected, pvars>>

\* The history append of _complete_commit / _complete_abort, then the next
\* unfinished transaction or the end of recover.
R_History ==
    /\ rec.pc = "hist"
    /\ LET t == Head(rec.todo)
       IN transaction_history' = Append(transaction_history,
              HistoryEntry(t, rec.outcome, transactions[t].data))
    /\ rec' = NextUnfinished
    /\ UNCHANGED <<participants, transactions, crashed, drv, sent, crashes, rejected, pvars>>

\* ======================= specification =====================================

Init ==
    /\ participants = <<>>
    /\ transactions = <<>>
    /\ transaction_history = <<>>
    /\ crashed = FALSE
    /\ drv = [t \in TxIds |-> IdleDriver]
    /\ rec = IdleRecovery
    /\ sent = {}
    /\ crashes = 0
    /\ rejected = 0
    /\ waited_transactions = [p \in Procs |-> {}]
    /\ prepared_transactions = [p \in Procs |-> {}]
    /\ committed_transactions = [p \in Procs |-> <<>>]
    /\ aborted_transactions = [p \in Procs |-> {}]
    /\ p_crashed = [p \in Procs |-> FALSE]
    /\ pending_vote = [p \in Procs |-> None]
    /\ pending_commit = [p \in Procs |-> None]
    /\ pending_abort = [p \in Procs |-> None]
    /\ failure_rate = [p \in Procs |-> "zero"]
    /\ timers = [p \in Procs |-> {}]

DriverNext ==
    \/ \E d \in DataVals : D_Start(d)
    \/ \E t \in TxIds :
         \/ D_CancommitSend(t) \/ D_CancommitWait(t)
         \/ D_CancommitDecide(t) \/ D_CancommitBranch(t)
         \/ D_PrecommitSend(t) \/ D_PrecommitWait(t)
         \/ D_PrecommitDecide(t) \/ D_PrecommitBranch(t)
         \/ D_CommitSend(t) \/ D_CommitWait(t) \/ D_CommitDecide(t)
         \/ D_AbortSend(t) \/ D_AbortWait(t) \/ D_AbortDecide(t)
         \/ D_History(t)

RecoveryNext ==
    \/ C_Crash \/ C_Recover
    \/ R_Probe \/ R_Decide \/ R_Send \/ R_Wait \/ R_Finish \/ R_History

\* Participant start and the operator's vote and ACK commands.
OperatorNext ==
    \E p \in Procs :
        \/ P_Start(p)
        \/ \E yes \in BOOLEAN : P_CancommitVote(p, yes) \/ P_PrecommitVote(p, yes)
        \/ P_AckCommit(p) \/ P_AckAbort(p)

\* The participants' timeout threads.
TimeoutNext ==
    \E p \in Procs : \E t \in TxIds :
        \/ P_CancommitTimeout(p, t) \/ P_PrecommitTimeout(p, t)
        \/ P_AckCommitTimeout(p, t) \/ P_AckAbortTimeout(p, t)

ParticipantCrashNext == \E p \in Procs : P_Crash(p) \/ P_Recover(p)

FailureRateNext ==
    \E p \in Procs : \E r \in {"zero", "positive"} : P_SetFailureRate(p, r)

\* The coordinator never crashes; participants crash, recover and inject
\* failures.
Next ==
    \/ DriverNext \/ OperatorNext \/ TimeoutNext
    \/ ParticipantCrashNext \/ FailureRateNext

Spec == Init /\ [][Next]_vars

\* No node crashes and no failure is injected.
NextNoCrash == DriverNext \/ OperatorNext \/ TimeoutNext

SpecNoCrash == Init /\ [][NextNoCrash]_vars

\* The coordinator crashes (at most MaxCrashes times) and recovers while
\* drivers are in flight; participants stay up and their operators answer
\* every request before its timeout thread wakes.
NextRecovery == DriverNext \/ RecoveryNext \/ OperatorNext

SpecRecovery == Init /\ [][NextRecovery]_vars

\* ======================= properties ========================================

HistoryIds(st) ==
    {transaction_history[i].transaction_id :
       i \in {j \in 1..Len(transaction_history) :
                transaction_history[j].status = st}}

\* The thread that last wrote a terminal status for t has not yet appended.
AppendPending(t) ==
    \/ drv[t].pc = "hist"
    \/ rec.pc = "hist" /\ Head(rec.todo) = t

\* C1: whenever a transaction's status in the table is COMMITTED or ABORTED
\* and no driver or recovery step stands between writing that status and its
\* history append, the history holds an entry for the transaction id whose
\* status equals the table status (execute_transaction, _complete_commit and
\* _complete_abort alike).
C1_TerminalHasHistoryEntry ==
    \A t \in DOMAIN transactions :
        (Terminal(transactions[t].status) /\ ~AppendPending(t))
            => t \in HistoryIds(transactions[t].status)

\* C1 witness: the driver gave up on the crash and recover's _complete_commit
\* finished the transaction as COMMITTED, with its history entry.
C1_Witness ==
    \E t \in DOMAIN transactions :
        /\ drv[t].ret = "false"
        /\ rec.pc = "idle"
        /\ transactions[t].status = "COMMITTED"
        /\ t \in HistoryIds("COMMITTED")

\* C2: the history holds at most one entry per transaction id, under any
\* interleaving of crash, recover, in-flight drivers and delayed votes/ACKs.
C2_AtMostOneEntryPerId ==
    \A i, j \in 1..Len(transaction_history) :
        i # j => transaction_history[i].transaction_id
                   # transaction_history[j].transaction_id

\* C3: on every participant the sets waited, prepared, aborted and the key
\* set of committed are pairwise disjoint in every reachable state.
C3_SetsPairwiseDisjoint ==
    \A p \in Procs :
        LET w == waited_transactions[p]
            pr == prepared_transactions[p]
            ab == aborted_transactions[p]
            cm == DOMAIN committed_transactions[p]
        IN /\ w \cap pr = {} /\ w \cap ab = {} /\ w \cap cm = {}
           /\ pr \cap ab = {} /\ pr \cap cm = {} /\ ab \cap cm = {}

\* The snapshot of a transaction, and the participants a message of it was
\* written to.
Snapshot(t) == Range(transactions[t].participants)

SentTo(mtype, t) == {p \in Procs : <<mtype, t, p>> \in sent}

Committers(t) == {p \in Procs : t \in DOMAIN committed_transactions[p]}

\* C4: with no crash, whenever every snapshot participant's recorded CanCommit
\* and PreCommit vote is YES, no participant holds the transaction in its
\* committed map while the history holds an ABORTED entry for it.
C4_NoCommittedWhileHistoryAborted ==
    \A t \in DOMAIN transactions :
        (\A p \in Snapshot(t) : /\ transactions[t].votes[p] = "yes"
                                /\ transactions[t].votep[p] = "yes")
            => ~(t \in HistoryIds("ABORTED") /\ Committers(t) # {})

\* C5: no step takes a transaction whose table status is COMMITTED or ABORTED
\* to a non-terminal status.
C5_TerminalStaysTerminal ==
    [][\A t \in DOMAIN transactions :
          Terminal(transactions[t].status) => Terminal(transactions'[t].status)]_vars

\* C6: no step changes any field of a record whose status is COMMITTED or
\* ABORTED (a late VOTE_RESPONSE or ACK_RESPONSE included).
C6_TerminalRecordImmutable ==
    [][\A t \in DOMAIN transactions :
          Terminal(transactions[t].status) => transactions'[t] = transactions[t]]_vars

\* C7: when a crashed participant finishes recover, its committed map holds,
\* for every COMMITTED entry of the coordinator's history, the entry's
\* transaction id mapped to the entry's data.
C7_RecoverReplaysCommitted ==
    [][\A p \in Procs :
          (p_crashed[p] /\ ~p_crashed'[p]) =>
              \A i \in 1..Len(transaction_history) :
                  LET e == transaction_history[i]
                  IN e.status = "COMMITTED" =>
                       /\ e.transaction_id \in DOMAIN committed_transactions'[p]
                       /\ committed_transactions'[p][e.transaction_id] = e.data]_vars

\* C7 witness: a participant outside the snapshot, which never got a message
\* of the transaction, crashed and recovered after the COMMITTED entry was
\* written and now holds the transaction's data.
C7_Witness ==
    \E t \in DOMAIN transactions : \E p \in Procs \ Snapshot(t) :
        /\ ~p_crashed[p]
        /\ t \in HistoryIds("COMMITTED")
        /\ t \in DOMAIN committed_transactions[p]
        /\ committed_transactions[p][t] = transactions[t].data

\* The driver of t is on (or has left through) the abort branch of msg.
OnBranch(t, msg) == t \in DOMAIN transactions /\ drv[t].msg = msg

\* The driver of t has returned after its history append of an ABORTED entry,
\* every snapshot participant having been sent msg.
AbortedWith(t, msg) ==
    /\ drv[t].ret = "false"
    /\ t \in HistoryIds("ABORTED")
    /\ Snapshot(t) \subseteq SentTo(msg, t)

\* C8: with no coordinator crash, a CanCommit tally with a NO (recorded, or
\* missing and so counted NO at the timeout) for some snapshot participant
\* makes the driver take the CANCOMMIT_ABORT branch; on that branch no
\* PRECOMMIT and no COMMIT is ever sent, no participant ever holds the
\* transaction in its committed map, and the driver ends by having sent
\* CANCOMMIT_ABORT to every snapshot participant, appended an ABORTED history
\* entry and returned false.
C8_CancommitNoAborts ==
    [][\A t \in DOMAIN transactions :
          /\ (/\ drv[t].pc = "p1_decide" /\ drv'[t].pc = "p1_branch"
              /\ \E p \in Snapshot(t) : transactions[t].votes[p] # "yes")
                => ~drv'[t].all_yes
          /\ (drv[t].pc = "p1_branch" /\ ~drv[t].all_yes /\ drv'[t] # drv[t])
                => drv'[t].msg = "CANCOMMIT_ABORT"
          /\ OnBranch(t, "CANCOMMIT_ABORT")' =>
                /\ SentTo("PRECOMMIT", t)' = {}
                /\ SentTo("COMMIT", t)' = {}
                /\ Committers(t)' = {}
                /\ drv'[t].pc = "done" => AbortedWith(t, "CANCOMMIT_ABORT")']_vars

\* C9: with no coordinator crash, after an all-YES CanCommit a PreCommit tally
\* with a NO (recorded, or missing and so counted NO at the timeout) makes the
\* driver take the PRECOMMIT_ABORT branch; on that branch no COMMIT is ever
\* sent and the driver ends by having sent PRECOMMIT_ABORT to every snapshot
\* participant, appended an ABORTED history entry and returned false.
C9_PrecommitNoAborts ==
    [][\A t \in DOMAIN transactions :
          /\ (/\ drv[t].pc = "p2_decide" /\ drv'[t].pc = "p2_branch"
              /\ \E p \in Snapshot(t) : transactions[t].votep[p] # "yes")
                => ~drv'[t].all_yes
          /\ (drv[t].pc = "p2_branch" /\ ~drv[t].all_yes /\ drv'[t] # drv[t])
                => drv'[t].msg = "PRECOMMIT_ABORT"
          /\ OnBranch(t, "PRECOMMIT_ABORT")' =>
                /\ SentTo("COMMIT", t)' = {}
                /\ drv'[t].pc = "done" => AbortedWith(t, "PRECOMMIT_ABORT")']_vars

O_AnswerYes(p) ==
    /\ pending_vote[p] # None
    /\ IF <<"precommit", pending_vote[p][1]>> \in timers[p]
       THEN P_PrecommitVote(p, TRUE)
       ELSE P_CancommitVote(p, TRUE)

\* No snapshot participant of t still has a request to answer.
NoneOutstanding(t) ==
    \A p \in Snapshot(t) : pending_vote[p] = None /\ pending_commit[p] = None

\* A collection loop of the driver whose time runs out only after every
\* operator has answered.
D_AnsweredWait(t) ==
    /\ t \in DOMAIN transactions
    /\ NoneOutstanding(t)
    /\ \/ D_CancommitWait(t) \/ D_PrecommitWait(t) \/ D_CommitWait(t)

\* No crash, no injected failure; operators answer yes / ack commit before
\* any timeout, at whatever moment after the request arrived; participants
\* may still start late.
NextAnswered ==
    \/ \E d \in DataVals : D_Start(d)
    \/ \E t \in TxIds :
         \/ D_CancommitSend(t) \/ D_CancommitDecide(t) \/ D_CancommitBranch(t)
         \/ D_PrecommitSend(t) \/ D_PrecommitDecide(t) \/ D_PrecommitBranch(t)
         \/ D_CommitSend(t) \/ D_CommitDecide(t)
         \/ D_AbortSend(t) \/ D_AbortWait(t) \/ D_AbortDecide(t)
         \/ D_History(t)
         \/ D_AnsweredWait(t)
    \/ \E p \in Procs : P_Start(p) \/ O_AnswerYes(p) \/ P_AckCommit(p)

SpecAnswered == Init /\ [][NextAnswered]_vars

\* C11: in answered runs a driver that has ended returned true, the history
\* holds exactly one entry for the transaction, COMMITTED with the
\* transaction's data, and every snapshot participant's committed map holds
\* the transaction id mapped to that data.
C11_AnsweredRunCommits ==
    \A t \in DOMAIN transactions :
        drv[t].pc = "done" =>
            /\ drv[t].ret = "true"
            /\ transaction_history =
                 <<[transaction_id |-> t, status |-> "COMMITTED",
                    data |-> transactions[t].data]>>
            /\ \A p \in Snapshot(t) :
                 /\ t \in DOMAIN committed_transactions[p]
                 /\ committed_transactions[p][t] = transactions[t].data


\* ======================= C12: votes and ACKs during the send loop ==========

\* The driver is in the send loop or the collection loop of the phase.
InPhase(t, send_pc, wait_pc) == drv[t].pc \in {send_pc, wait_pc}

\* The entry of participant p in a table of the record survives this step.
Kept(t, field, p) ==
    transactions[t][field][p] # "none" =>
        transactions'[t][field][p] = transactions[t][field][p]

\* C12: a vote or ACK that a snapshot participant has delivered for the phase
\* in progress (the request went out to it, the wait has not concluded) stays
\* in the record's table until the tally: no step of the send loop or of the
\* collection loop removes it.
C12_DeliveredAnswersAreTallied ==
    [][\A t \in DOMAIN transactions : \A p \in Snapshot(t) :
          /\ (InPhase(t, "p1_send", "p1_wait") /\ <<"CANCOMMIT", t, p>> \in sent)
                => Kept(t, "votes", p)
          /\ (InPhase(t, "p2_send", "p2_wait") /\ <<"PRECOMMIT", t, p>> \in sent)
                => Kept(t, "votep", p)
          /\ (InPhase(t, "p3_send", "p3_wait") /\ <<drv[t].msg, t, p>> \in sent)
                => Kept(t, "acks", p)]_vars


\* ======================= C13-C15: refused calls, the crashed flag ==========

\* The coordinator crashes and is not recovered; drivers are in flight,
\* operators answer, participants start, crash and recover, and the operator
\* of the coordinator types `tx` at any moment.
NextCrashed ==
    \/ DriverNext \/ D_Reject \/ C_Crash
    \/ OperatorNext \/ ParticipantCrashNext

SpecCrashed == Init /\ [][NextCrashed]_vars

\* This step is a call of execute_transaction: it returned False at entry or
\* it created a record.
ExecuteCalled ==
    rejected' # rejected \/ DOMAIN transactions' # DOMAIN transactions

\* The call returned False at entry and left the table, the history, the
\* wire and the driver threads alone.
RejectedCleanly ==
    /\ rejected' = rejected + 1
    /\ UNCHANGED <<transactions, transaction_history, sent, drv>>

\* C13: a call of execute_transaction made while the registry is empty
\* returns False at once: no record is created, no history entry appended,
\* no message sent.
C13_EmptyRegistryRejects ==
    [][(participants = <<>> /\ ExecuteCalled) => RejectedCleanly]_vars

\* C13 witness: the coordinator never crashed, the registry is empty and a
\* call was rejected.
C13_Witness ==
    /\ crashes = 0
    /\ participants = <<>>
    /\ rejected = 1
    /\ transactions = <<>>
    /\ transaction_history = <<>>
    /\ sent = {}


\* C14: while self.crashed is true, (a) a step of a participant (a
\* VOTE_RESPONSE or ACK_RESPONSE frame included) changes no transaction
\* record, (b) REGISTER is served: a starting or recovering participant is in
\* the registry afterwards, (c) HISTORY_REQUEST is served: a recovering
\* participant holds every COMMITTED entry of the history afterwards, and (d)
\* a call of execute_transaction returns False without creating a record or
\* sending a message.
C14_CrashedGate ==
    [][crashed =>
         /\ (UNCHANGED <<drv, rec>> => transactions' = transactions)
         /\ \A p \in Procs :
              (P_Start(p) \/ (p_crashed[p] /\ ~p_crashed'[p]))
                 => p \in Range(participants')
         /\ \A p \in Procs :
              (p_crashed[p] /\ ~p_crashed'[p]) =>
                 \A t \in HistoryIds("COMMITTED") :
                    /\ t \in DOMAIN committed_transactions'[p]
                    /\ committed_transactions'[p][t] = transactions[t].data
         /\ (ExecuteCalled => RejectedCleanly)]_vars

\* C14 witness: the coordinator is crashed; the only snapshot participant
\* answered `cancommit vote yes` and its vote is not in the record, whose
\* driver gave up; a second participant is registered; a `tx` was refused.
C14_Witness ==
    /\ crashed
    /\ rejected = 1
    /\ \E t \in DOMAIN transactions : \E p \in Snapshot(t) :
         /\ Snapshot(t) = {p}
         /\ Range(participants) = Procs
         /\ t \in waited_transactions[p]
         /\ transactions[t].votes[p] = "none"
         /\ transactions[t].status = "WAITING"
         /\ drv[t].ret = "false"


\* The driver of t is between its entry and its return.
InFlight(t) == drv[t].pc \notin {"idle", "done"}

\* C15: once self.crashed is true (and stays true), a driver in flight
\* appends no history entry, sends no protocol message, writes no terminal
\* status, and when it returns it returns False.
C15_CrashStopsDriver ==
    [][\A t \in DOMAIN transactions :
          (crashed /\ InFlight(t) /\ drv'[t] # drv[t]) =>
              /\ transaction_history' = transaction_history
              /\ sent' = sent
              /\ (~Terminal(transactions[t].status)
                    => ~Terminal(transactions'[t].status))
              /\ (drv'[t].pc = "done" => drv'[t].ret = "false")]_vars


\* ======================= C16-C19: coordinator recovery =====================

\* This step is the operator's `recover`: crashed goes from true to false and
\* the scan of _recover_coordinator has run.
RecoverStarts == crashed /\ ~crashed'

\* This step ends _recover_coordinator (at once when the scan found nothing).
RecoverEnds ==
    /\ ~crashed'
    /\ rec'.pc = "idle"
    /\ (rec.pc # "idle" \/ crashed)

\* C16: recover takes up every transaction whose status is not terminal at
\* that moment (COMMITTING and ABORTING included), and when a recover ends
\* without a further crash every transaction whose driver has returned has
\* status COMMITTED or ABORTED and a history entry.
C16_RecoverFinishesAllNonTerminal ==
    [][/\ RecoverStarts =>
            \A t \in DOMAIN transactions :
                ~Terminal(transactions[t].status) => t \in Range(rec'.todo)
       /\ RecoverEnds =>
            \A t \in DOMAIN transactions :
                drv[t].pc = "done" =>
                    /\ Terminal(transactions'[t].status)
                    /\ t \in {transaction_history'[i].transaction_id :
                                i \in 1..Len(transaction_history')}]_vars


\* This step is the decision of recover for the transaction it works on.
RecoverDecides == rec.pc = "decide" /\ rec'.pc = "send"

StoppedBeforePrecommit(t) ==
    /\ drv[t].pc = "done"
    /\ transactions[t].status \in {"WAITING", "WAITED", "PREPARING"}
    /\ \A p \in Snapshot(t) : transactions[t].votes[p] = "yes"
    /\ SentTo("PRECOMMIT", t) = {}

\* C18: when the operator types `recover` after such a crash, the driver has
\* returned False, the history has no entry of the transaction, recover takes
\* the transaction up and its decision for it is _complete_abort (ABORT, not
\* COMMIT, goes out).
C18_CrashBeforePrecommitAborts ==
    [][RecoverStarts =>
          \A t \in DOMAIN transactions :
              StoppedBeforePrecommit(t) =>
                  /\ drv[t].ret = "false"
                  /\ t \notin HistoryIds("COMMITTED") \cup HistoryIds("ABORTED")
                  /\ t \in Range(rec'.todo)
                  /\ RecoveryDecision(transactions[t]) = "ABORT"]_vars


\* The terminal status _complete_commit / _complete_abort is named after.
Completes(msg) == IF msg = "COMMIT" THEN "COMMITTED" ELSE "ABORTED"

\* C19: when _complete_commit (_complete_abort) runs to its end during
\* recover, the transaction's status is COMMITTED (ABORTED) and the entry it
\* appends to the history is COMMITTED (ABORTED); when it closes its ACK
\* collection, every participant registered at that moment has an ACK or
\* TIMEOUT recorded.
C19_CompletionRecordsItsOutcome ==
    [][/\ (rec.pc = "finish" /\ rec'.pc = "hist") =>
            LET t == Head(rec.todo)
            IN /\ \A p \in Range(participants) : transactions'[t].acks[p] # "none"
               /\ transactions'[t].status = Completes(rec.msg)
       /\ (rec.pc = "hist" /\ rec'.pc # "hist") =>
            LET t == Head(rec.todo)
            IN transaction_history' = Append(transaction_history,
                   HistoryEntry(t, Completes(rec.msg), transactions[t].data))]_vars


\* ======================= C20: the participant's sets =======================

\* C20: outside recovery replay, a transaction id is added to a participant's
\* prepared set only while it is in its waited set, and to its committed map
\* or aborted set only while it is in its prepared set, whichever command the
\* operator types in answer to a pending request.
C20_SetsAreEnteredInOrder ==
    [][\A p \in Procs : \A t \in TxIds :
          /\ (t \notin prepared_transactions[p] /\ t \in prepared_transactions'[p])
                => t \in waited_transactions[p]
          /\ (t \notin DOMAIN committed_transactions[p]
                /\ t \in DOMAIN committed_transactions'[p])
                => t \in prepared_transactions[p]
          /\ (t \notin aborted_transactions[p] /\ t \in aborted_transactions'[p])
                => t \in prepared_transactions[p]]_vars


\* ======================= C21: the participant's pending slots ==============

\* C21: a participant never holds a pending COMMIT and a pending abort
\* together (each slot holds at most one request).
C21_OnePendingDecision ==
    \A p \in Procs : pending_commit[p] = None \/ pending_abort[p] = None


\* ======================= C22: who receives a driver's messages =============

\* C22: every message a transaction driver has written went to a participant
\* of the snapshot taken when the transaction started (the coordinator never
\* crashes here, so drivers are the only senders).
C22_DriverSendsToSnapshotOnly ==
    \A m \in sent : m[3] \in Snapshot(m[2])


\* ======================= C23: REGISTER twice ===============================

\* This step carries a REGISTER frame of participant p (start or recover).
Registers(p) == P_Start(p) \/ P_Recover(p)

\* C23: a REGISTER of an id that is registered already leaves the registry
\* as it is, so that after any REGISTER a second one with the same id, host
\* and port gives the same map; no REGISTER changes the transaction table,
\* the history, the crashed flag or a coordinator thread.
C23_RegisterIdempotent ==
    [][\A p \in Procs :
          Registers(p) =>
              /\ p \in Range(participants) => participants' = participants
              /\ Register(p)' = participants'
              /\ UNCHANGED <<transactions, transaction_history, crashed, tvars>>]_vars

\* C23 witness: a participant outside the transaction's snapshot holds the
\* committed transaction, which only the replay of its recover gives it: it
\* registered at its start and again at its recover, and the registry holds
\* every id once.
C23_Witness ==
    \E t \in DOMAIN transactions : \E p \in Procs \ Snapshot(t) :
        /\ t \in DOMAIN committed_transactions[p]
        /\ ~p_crashed[p]
        /\ Len(participants) = NumProcs
        /\ Cardinality(Range(participants)) = NumProcs


\* ======================= C24: replaying a history twice ====================

\* Transaction ids and payloads of the histories replayed below.
ReplayTx == 1..NumReplayTx

ReplayData == 1..NumReplayData

\* The records the coordinator appends to its history.
HistoryRecords ==
    [transaction_id : ReplayTx, status : {"COMMITTED", "ABORTED"},
     data : ReplayData]

Histories == UNION {[1..n -> HistoryRecords] : n \in 0..MaxHistory}

\* The committed maps over the ids.
CommittedMaps == UNION {[S -> ReplayData] : S \in SUBSET ReplayTx}

\* Participant 1 is registered and crashed, in any state of its four
\* collections; the coordinator's history is any history of at most
\* MaxHistory records.
InitReplay ==
    /\ participants = <<1>>
    /\ transactions = <<>>
    /\ transaction_history \in Histories
    /\ crashed = FALSE
    /\ drv = [t \in TxIds |-> IdleDriver]
    /\ rec = IdleRecovery
    /\ sent = {}
    /\ crashes = 0
    /\ rejected = 0
    /\ \E w \in SUBSET ReplayTx :
         waited_transactions = [p \in Procs |-> IF p = 1 THEN w ELSE {}]
    /\ \E pr \in SUBSET ReplayTx :
         prepared_transactions = [p \in Procs |-> IF p = 1 THEN pr ELSE {}]
    /\ \E cm \in CommittedMaps :
         committed_transactions = [p \in Procs |-> IF p = 1 THEN cm ELSE <<>>]
    /\ \E ab \in SUBSET ReplayTx :
         aborted_transactions = [p \in Procs |-> IF p = 1 THEN ab ELSE {}]
    /\ p_crashed = [p \in Procs |-> p = 1]
    /\ pending_vote = [p \in Procs |-> None]
    /\ pending_commit = [p \in Procs |-> None]
    /\ pending_abort = [p \in Procs |-> None]
    /\ failure_rate = [p \in Procs |-> "zero"]
    /\ timers = [p \in Procs |-> {}]

\* A QUERY_STATE frame for transaction t reaches participant p (the
\* coordinator sends them in its recover, for any id of its table).
P_QueryState(p, t) ==
    /\ p \in Range(participants)
    /\ sent' = sent \cup {<<"QUERY_STATE", t, p>>}
    /\ \E inj \in Injections(p, "QUERY_STATE") :
         PHandle(p, "QUERY_STATE", t, None, inj)
    /\ UNCHANGED <<cvars, drv, rec, crashes, rejected>>

\* The participant recovers (replay), crashes and recovers again, and is
\* asked for the state of a transaction at any moment.
NextReplay ==
    \E p \in Procs :
        \/ P_Recover(p) \/ P_Crash(p)
        \/ \E t \in ReplayTx : P_QueryState(p, t)

SpecReplay == InitReplay /\ [][NextReplay]_vars

\* C24: when a participant has applied a history in its recover, applying the
\* same history once more to the state it is in now changes nothing: the
\* committed map, the aborted set and the prepared set are fixed points of
\* the replay, and the waited set is not touched by it.
C24_ReplayIdempotent ==
    [][\A p \in Procs :
          (p_crashed[p] /\ ~p_crashed'[p]) =>
              LET history == HistoryOf(HistoryResponse)
              IN /\ ReplayCommitted(committed_transactions'[p], history)
                      = committed_transactions'[p]
                 /\ ReplayAborted(aborted_transactions'[p], history)
                      = aborted_transactions'[p]
                 /\ ReplayPrepared(prepared_transactions'[p], history)
                      = prepared_transactions'[p]
                 /\ waited_transactions' = waited_transactions]_vars

\* C24 witness: a recovered participant after the replay of a history with
\* two COMMITTED records of one id and different data: it holds the later.
C24_Witness ==
    /\ ~p_crashed[1]
    /\ Len(transaction_history) = 2
    /\ transaction_history[1].transaction_id = transaction_history[2].transaction_id
    /\ transaction_history[1].status = "COMMITTED"
    /\ transaction_history[2].status = "COMMITTED"
    /\ transaction_history[1].data # transaction_history[2].data
    /\ committed_transactions[1][transaction_history[2].transaction_id]
          = transaction_history[2].data


\* ======================= C25-C29: one inbound message ======================

\* This step writes the message mtype of transaction t to participant p.
Delivered(mtype, t, p) == <<mtype, t, p>> \in sent' \ sent

\* C25: a participant that is up and gets COMMIT for a transaction it holds
\* in its committed map replies ACK_COMMIT and changes no state; one that
\* gets an abort message for a transaction in its aborted set replies
\* ACK_ABORT and changes no state (no failure is injected).
C25_RepeatedDecisionIsBenign ==
    [][\A p \in Procs : \A t \in TxIds :
          /\ (Delivered("COMMIT", t, p) /\ ~p_crashed[p]
                /\ t \in DOMAIN committed_transactions[p])
                => /\ PReply(p, "COMMIT", t, "no") = "ACK_COMMIT"
                   /\ UNCHANGED pvars
          /\ \A mtype \in AbortTypes :
               (Delivered(mtype, t, p) /\ ~p_crashed[p]
                  /\ t \in aborted_transactions[p])
                 => /\ PReply(p, mtype, t, "no") = "ACK_ABORT"
                    /\ UNCHANGED pvars]_vars


\* The timeout thread <<kind, t>> of participant p acts in this step (its slot
\* check passed).
TimerActs(p, kind, t) == <<kind, t>> \in timers[p] \ timers'[p]

\* C26: the timeout thread armed for a CANCOMMIT does not act once the
\* CANCOMMIT has been answered and the PRECOMMIT of the same transaction is
\* the pending request (PRECOMMIT is sent to a participant only after its
\* CanCommit vote, so an armed PreCommit timer means the CANCOMMIT was
\* answered).
C26_TimerActsOnOwnRequestOnly ==
    [][\A p \in Procs : \A t \in TxIds :
          TimerActs(p, "cancommit", t) => <<"precommit", t>> \notin timers[p]]_vars


\* C27: a participant that is up and gets COMMIT for a transaction that is
\* not in its prepared set answers ACK_ABORT on the same connection (when the
\* message is processed, i.e. no failure is injected at its entry) and in
\* every case stores no pending decision, arms no timeout and leaves its
\* four sets unchanged.
C27_CommitUnpreparedRefused ==
    [][\A p \in Procs : \A t \in TxIds :
          (Delivered("COMMIT", t, p) /\ ~p_crashed[p]
             /\ t \notin prepared_transactions[p])
            => /\ PReply(p, "COMMIT", t, "no") = "ACK_ABORT"
               /\ UNCHANGED <<psets, pslots, timers>>]_vars

\* C27 witness: COMMIT went to a participant that registered after the
\* transaction started, so never prepared it; it is up, injects no failure
\* and has neither a pending request nor a timer.
C27_Witness ==
    \E t \in DOMAIN transactions : \E p \in Procs \ Snapshot(t) :
        /\ <<"COMMIT", t, p>> \in sent
        /\ ~p_crashed[p]
        /\ failure_rate[p] = "zero"
        /\ t \notin prepared_transactions[p]
        /\ pending_commit[p] = None
        /\ timers[p] = {}


\* C28: the status a participant that is up reports for QUERY_STATE(t) is
\* COMMITTED if t is in its committed map, else PREPARED if in prepared,
\* else WAITED if in waited, else ABORTED if in aborted, else UNKNOWN, in
\* every combination of the four memberships; the query changes no
\* participant state.
C28_QueryStateStatus ==
    [][\A p \in Procs : \A t \in ReplayTx :
          (Delivered("QUERY_STATE", t, p) /\ ~p_crashed[p]) =>
              /\ PReply(p, "QUERY_STATE", t, "no") =
                   CASE t \in DOMAIN committed_transactions[p] -> "COMMITTED"
                     [] t \notin DOMAIN committed_transactions[p]
                          /\ t \in prepared_transactions[p] -> "PREPARED"
                     [] t \notin DOMAIN committed_transactions[p]
                          /\ t \notin prepared_transactions[p]
                          /\ t \in waited_transactions[p] -> "WAITED"
                     [] t \notin DOMAIN committed_transactions[p]
                          /\ t \notin prepared_transactions[p]
                          /\ t \notin waited_transactions[p]
                          /\ t \in aborted_transactions[p] -> "ABORTED"
                     [] OTHER -> "UNKNOWN"
              /\ UNCHANGED pvars]_vars

\* C28 witness: a participant that is up was asked for a transaction it
\* holds in all four collections at once.
C28_Witness ==
    \E t \in ReplayTx :
        /\ <<"QUERY_STATE", t, 1>> \in sent
        /\ ~p_crashed[1]
        /\ t \in DOMAIN committed_transactions[1]
        /\ t \in prepared_transactions[1]
        /\ t \in waited_transactions[1]
        /\ t \in aborted_transactions[1]


\* The coordinator crashes and recovers while the participant that
\* registered first may crash (and stays down).
NextParticipantDown ==
    \/ DriverNext \/ RecoveryNext \/ OperatorNext
    \/ (Len(participants) > 0 /\ P_Crash(participants[1]))

SpecParticipantDown == Init /\ [][NextParticipantDown]_vars

\* C29: a message that reaches a participant whose crashed flag is set
\* (CANCOMMIT, PRECOMMIT, COMMIT, an abort message or QUERY_STATE) gets no
\* reply, fills no pending slot, arms no timeout and leaves the four sets
\* as they were.
C29_CrashedParticipantIgnores ==
    [][\A p \in Procs : \A t \in TxIds :
       \A mtype \in {"CANCOMMIT", "PRECOMMIT", "COMMIT", "QUERY_STATE"}
                      \cup AbortTypes :
          (Delivered(mtype, t, p) /\ p_crashed[p]) =>
              /\ \A inj \in Injections(p, mtype) :
                     PReply(p, mtype, t, inj) = "none"
              /\ UNCHANGED <<psets, pslots, timers>>]_vars

\* C29 witness: CANCOMMIT and later QUERY_STATE were written to a crashed
\* participant, which holds no trace of the transaction.  The driver sent
\* CANCOMMIT and then returned at a crash check of the coordinator, so
\* recover's QUERY_STATE came after the CANCOMMIT that was ignored.
C29_Witness ==
    \E p \in Procs : \E t \in TxIds :
        /\ p_crashed[p]
        /\ drv[t].pc = "done" /\ drv[t].ret = "false"
        /\ \A mtype \in {"PRECOMMIT", "CANCOMMIT_ABORT", "PRECOMMIT_ABORT"} :
               <<mtype, t, p>> \notin sent
        /\ {<<"CANCOMMIT", t, p>>, <<"QUERY_STATE", t, p>>} \subseteq sent
        /\ pending_vote[p] = None
        /\ pending_commit[p] = None
        /\ pending_abort[p] = None
        /\ timers[p] = {}
        /\ t \notin waited_transactions[p] \cup prepared_transactions[p]
                      \cup aborted_transactions[p]
        /\ t \notin DOMAIN committed_transactions[p]


C31_EntryFailureReply ==
    [][\A p \in Procs : \A t \in TxIds :
       \A mtype \in {"CANCOMMIT", "PRECOMMIT", "COMMIT", "QUERY_STATE"}
                      \cup AbortTypes :
          (Delivered(mtype, t, p) /\ ~p_crashed[p]
             /\ "entry" \in Injections(p, mtype)) =>
              /\ PReply(p, mtype, t, "entry") =
                   CASE mtype = "CANCOMMIT" -> "CANCOMMIT_VOTE_NO"
                     [] mtype = "PRECOMMIT" -> "PRECOMMIT_VOTE_NO"
                     [] OTHER -> "none"
              /\ (mtype = "CANCOMMIT" /\ drv[t].loc[p] # "no"
                    /\ (drv'[t].loc[p] = "no" \/ transactions'[t].votes[p] = "no"))
                   => UNCHANGED <<psets, pslots, timers>>]_vars


\* C32: with a COMMIT pending for a prepared transaction, `ack commit` and
\* the auto-ACK timeout move the id from prepared to committed with the
\* COMMIT's data and send ACK_COMMIT, `ack abort` moves it from prepared to
\* aborted and sends ACK_ABORT; the pending commit slot is cleared each
\* time, and every ACK of a participant that reaches the coordinator's table
\* consumes a pending slot of that transaction (one ACK per stored request).
C32_AckOfPendingCommit ==
    [][\A p \in Procs : \A t \in TxIds :
         LET held == SlotHolds(pending_commit[p], t)
                       /\ t \in prepared_transactions[p]
         IN /\ (held /\ (P_AckCommit(p) \/ P_AckCommitTimeout(p, t))) =>
                  /\ committed_transactions'[p] =
                       Put(committed_transactions[p], t, pending_commit[p][2])
                  /\ t \notin prepared_transactions'[p]
                  /\ aborted_transactions'[p] = aborted_transactions[p]
                  /\ pending_commit'[p] = None
                  /\ transactions' = OnAckResponse(p, "ACK_COMMIT", t)
            /\ (held /\ P_AckAbort(p)) =>
                  /\ t \in aborted_transactions'[p]
                  /\ t \notin prepared_transactions'[p]
                  /\ committed_transactions'[p] = committed_transactions[p]
                  /\ pending_commit'[p] = None
                  /\ transactions' = OnAckResponse(p, "ACK_ABORT", t)
            /\ (drv' = drv /\ rec' = rec /\ t \in DOMAIN transactions
                  /\ transactions'[t].acks[p] # transactions[t].acks[p]) =>
                  \/ SlotHolds(pending_commit[p], t) /\ pending_commit'[p] = None
                  \/ SlotHolds(pending_abort[p], t) /\ pending_abort'[p] = None]_vars

\* C32 witness: one participant committed the transaction by ACK (the
\* history is empty, so not by replay), another answered its COMMIT with
\* `ack abort` (no abort message was ever sent to it).
C32_Witness ==
    \E p \in Procs : \E q \in Procs \ {p} : \E t \in TxIds :
        /\ transaction_history = <<>>
        /\ t \in DOMAIN committed_transactions[p]
        /\ t \notin prepared_transactions[p]
        /\ pending_commit[p] = None
        /\ transactions[t].acks[p] = "ACK_COMMIT"
        /\ <<"COMMIT", t, q>> \in sent
        /\ \A mtype \in AbortTypes : <<mtype, t, q>> \notin sent
        /\ t \in aborted_transactions[q]
        /\ t \notin prepared_transactions[q]
        /\ pending_commit[q] = None
        /\ transactions[t].acks[q] = "ACK_ABORT"


\* C33: a driver invocation of a coordinator that never crashes, started
\* with a non-empty snapshot, has the transaction in status COMMITTED or
\* ABORTED when it has ended.
C33_DriverEndsTerminal ==
    \A t \in DOMAIN transactions :
        (drv[t].pc = "done" /\ ~crashed /\ crashes = 0
           /\ transactions[t].participants # <<>>)
            => Terminal(transactions[t].status)


\* ---- the participant's lock at the timeout threads ----
\* A timeout thread that is inside `with self.lock:` and about to open its
\* socket is the timer entry <<kind, t, "locked">>.
TimerKinds == {"cancommit", "precommit", "ack_commit", "ack_abort"}

TimerSlot(p, kind) ==
    IF kind \in {"cancommit", "precommit"} THEN pending_vote[p]
    ELSE IF kind = "ack_commit" THEN pending_commit[p]
    ELSE pending_abort[p]

LockFree(p) == \A kind \in TimerKinds : \A t \in TxIds :
                  /\ <<kind, t, "locked">> \notin timers[p]
                  /\ <<kind, t, "sent">> \notin timers[p]

\* The sleep of a timeout thread is over: it takes the lock and tests its
\* slot; if the slot holds its transaction its next operation is the send
\* to the coordinator, otherwise it leaves the lock and ends.
T_Lock(p, kind, t) ==
    /\ <<kind, t>> \in timers[p]
    /\ LockFree(p)
    /\ timers' = [timers EXCEPT ![p] =
                    (@ \ {<<kind, t>>}) \cup
                    (IF SlotHolds(TimerSlot(p, kind), t)
                     THEN {<<kind, t, "locked">>} ELSE {})]
    /\ UNCHANGED <<cvars, tvars, psets, pslots, p_crashed, failure_rate>>

\* Inside the lock: the vote or ACK is written to the coordinator.
T_Send(p, kind, t) ==
    /\ <<kind, t, "locked">> \in timers[p]
    /\ timers' = [timers EXCEPT ![p] =
                    (@ \ {<<kind, t, "locked">>}) \cup {<<kind, t, "sent">>}]
    /\ CASE kind = "cancommit" -> SendVoteResponse(p, "CANCOMMIT_VOTE_NO", t)
         [] kind = "precommit" -> SendVoteResponse(p, "PRECOMMIT_VOTE_NO", t)
         [] kind = "ack_commit" -> SendAckResponse(p, "ACK_COMMIT", t)
         [] kind = "ack_abort" -> SendAckResponse(p, "ACK_ABORT", t)
    /\ UNCHANGED <<participants, transaction_history, crashed, drv, rec,
                   crashes, rejected, psets, pslots, p_crashed, failure_rate>>

\* Still inside the lock, after the send: the sets are updated and the slot
\* is cleared; the lock is left.
T_Finish(p, kind, t) ==
    /\ <<kind, t, "sent">> \in timers[p]
    /\ timers' = [timers EXCEPT ![p] = @ \ {<<kind, t, "sent">>}]
    /\ CASE kind \in {"cancommit", "precommit"} ->
              /\ pending_vote' = [pending_vote EXCEPT ![p] = None]
              /\ UNCHANGED <<psets, pending_commit, pending_abort>>
         [] kind = "ack_commit" ->
              /\ DoCommit(p, t, pending_commit[p][2])
              /\ pending_commit' = [pending_commit EXCEPT ![p] = None]
              /\ UNCHANGED <<waited_transactions, aborted_transactions,
                             pending_vote, pending_abort>>
         [] kind = "ack_abort" ->
              /\ DoAbort(p, t)
              /\ pending_abort' = [pending_abort EXCEPT ![p] = None]
              /\ UNCHANGED <<waited_transactions, committed_transactions,
                             pending_vote, pending_commit>>
    /\ UNCHANGED <<cvars, tvars, p_crashed, failure_rate>>

\* The steps of a driver that touch no participant: ticks of the collection
\* loops, tallies, branches and the history append.
D_Local(t) ==
    \/ D_CancommitWait(t) \/ D_CancommitDecide(t) \/ D_CancommitBranch(t)
    \/ D_PrecommitWait(t) \/ D_PrecommitDecide(t) \/ D_PrecommitBranch(t)
    \/ D_CommitWait(t) \/ D_CommitDecide(t)
    \/ D_AbortWait(t) \/ D_AbortDecide(t)
    \/ D_History(t)

\* Handlers and commands of a participant take its lock, so sends to
\* participants and operator commands run while no timeout thread holds a
\* lock; the drivers' local steps run at any moment.
NextLock ==
    \/ (\A p \in Procs : LockFree(p)) /\ (DriverNext \/ OperatorNext)
    \/ \E t \in TxIds : D_Local(t)
    \/ \E p \in Procs : \E kind \in TimerKinds : \E t \in TxIds :
          T_Lock(p, kind, t) \/ T_Send(p, kind, t) \/ T_Finish(p, kind, t)

SpecLock == Init /\ [][NextLock]_vars

\* C34: no thread is at a network send or receive while it holds its
\* node's lock, the participant's vote and ACK timeout threads included.
C34_NoSendUnderLock == \A p \in Procs : LockFree(p)


\* A second `tx` command typed after the first one: its driver thread runs
\* beside the first (ids are taken in order).
D_StartConcurrent(d) ==
    /\ rec.pc = "idle"
    /\ Accepts
    /\ DOMAIN transactions # {}
    /\ Cardinality(DOMAIN transactions) < MaxConcurrent
    /\ LET t == Cardinality(DOMAIN transactions) + 1
       IN /\ transactions' = Put(transactions, t, NewRecord(d))
          /\ drv' = [drv EXCEPT ![t] = [IdleDriver EXCEPT !.pc = "p1_send", !.i = 1]]
    /\ UNCHANGED <<participants, transaction_history, crashed, rec, sent,
                   crashes, rejected, pvars>>

\* One participant, its operator and its timeout threads, and the drivers
\* of two transactions.
NextConcurrent ==
    \/ DriverNext \/ (\E d \in DataVals : D_StartConcurrent(d))
    \/ P_Start(1)
    \/ \E yes \in BOOLEAN : P_CancommitVote(1, yes) \/ P_PrecommitVote(1, yes)
    \/ P_AckCommit(1) \/ P_AckAbort(1)
    \/ TimeoutNext

\* Two transactions, no crash; every thread that can run keeps running.
SpecConcurrent ==
    Init /\ [][NextConcurrent]_vars /\ WF_vars(NextConcurrent)


\* The request held in a slot leaves it in this step.
Leaves(slot, p, t) == SlotHolds(slot[p], t) /\ ~SlotHolds(slot'[p], t)

\* C35: with two transactions in flight, every CANCOMMIT, PRECOMMIT, COMMIT
\* or abort request that a participant has stored is eventually answered by
\* a vote or ACK for that same transaction (operator or timeout): the
\* request leaves its slot only when the slot is emptied, which the vote and
\* ACK commands and the timeout threads do as they send, and it does leave
\* the slot.
C35_EveryRequestAnswered ==
    /\ [][\A p \in Procs : \A t \in TxIds :
            /\ Leaves(pending_vote, p, t) => pending_vote'[p] = None
            /\ Leaves(pending_commit, p, t) => pending_commit'[p] = None
            /\ Leaves(pending_abort, p, t) => pending_abort'[p] = None]_vars
    /\ \A p \in Procs : \A t \in TxIds :
         /\ SlotHolds(pending_vote[p], t) ~> ~SlotHolds(pending_vote[p], t)
         /\ SlotHolds(pending_commit[p], t) ~> ~SlotHolds(pending_commit[p], t)
         /\ SlotHolds(pending_abort[p], t) ~> ~SlotHolds(pending_abort[p], t)


\* C36: a transaction id enters a participant's committed map only by an
\* `ack commit` or auto-ACK timeout that empties a pending COMMIT of the id
\* while the id is in its prepared set, or by the replay of a COMMITTED
\* history entry in its recover; and an id enters the prepared set only with
\* a PRECOMMIT_VOTE_YES of that participant.
C36_CommittedOnlyByAckOrReplay ==
    [][\A p \in Procs : \A t \in TxIds :
         /\ (t \notin DOMAIN committed_transactions[p]
               /\ t \in DOMAIN committed_transactions'[p]) =>
               \/ /\ t \in prepared_transactions[p]
                  /\ SlotHolds(pending_commit[p], t)
                  /\ pending_commit'[p] = None
                  /\ P_AckCommit(p) \/ P_AckCommitTimeout(p, t)
               \/ /\ P_Recover(p)
                  /\ \E i \in 1..Len(transaction_history) :
                       /\ transaction_history[i].transaction_id = t
                       /\ transaction_history[i].status = "COMMITTED"
         /\ (t \notin prepared_transactions[p]
               /\ t \in prepared_transactions'[p]) =>
               /\ SlotHolds(pending_vote[p], t)
               /\ pending_vote'[p] = None
               /\ transactions' = OnVoteResponse(p, "PRECOMMIT_VOTE_YES", t)]_vars

\* C36 witness: one participant holds the id by its ACK of the COMMIT it was
\* sent, another, which was never sent COMMIT, by the replay in its recover.
C36_Witness ==
    \E p \in Procs : \E q \in Procs \ {p} : \E t \in TxIds :
        /\ t \in DOMAIN committed_transactions[p]
        /\ <<"COMMIT", t, p>> \in sent
        /\ transactions[t].acks[p] = "ACK_COMMIT"
        /\ t \in DOMAIN committed_transactions[q]
        /\ <<"COMMIT", t, q>> \notin sent
        /\ ~p_crashed[q]
        /\ \E i \in 1..Len(transaction_history) :
             /\ transaction_history[i].transaction_id = t
             /\ transaction_history[i].status = "COMMITTED"


\* C37: whenever the coordinator writes COMMIT for a transaction to a
\* participant, from the driver or from recover, the CanCommit vote and the
\* PreCommit vote recorded for every snapshot participant are YES.
C37_CommitOnlyAfterAllYes ==
    [][\A p \in Procs : \A t \in TxIds :
          Delivered("COMMIT", t, p) =>
              \A q \in Snapshot(t) :
                  /\ transactions[t].votes[q] = "yes"
                  /\ transactions[t].votep[q] = "yes"]_vars


\* C38: in no reachable state is a transaction id in one participant's
\* committed map and in another participant's aborted set.
C38_Atomicity ==
    \A p \in Procs : \A q \in Procs \ {p} : \A t \in TxIds :
        ~(t \in DOMAIN committed_transactions[p]
            /\ t \in aborted_transactions[q])


\* C39: whenever the history holds a COMMITTED entry for a transaction,
\* every participant of the transaction's snapshot has the id in its
\* committed map with the transaction's data.
C39_CommittedEverywhere ==
    \A i \in 1..Len(transaction_history) :
        LET e == transaction_history[i]
        IN e.status = "COMMITTED" =>
             \A p \in Snapshot(e.transaction_id) :
                 /\ e.transaction_id \in DOMAIN committed_transactions[p]
                 /\ committed_transactions[p][e.transaction_id] = e.data


\* The coordinator crashes and recovers while the participant that
\* registered first crashes and is brought back by the operator's recover.
NextParticipantRestart ==
    \/ NextParticipantDown
    \/ (Len(participants) > 0 /\ P_Recover(participants[1]))

SpecParticipantRestart == Init /\ [][NextParticipantRestart]_vars


\* C40: while a participant's crashed flag is set (after crash, before the
\* end of recover) it sends no VOTE_RESPONSE and no ACK_RESPONSE and its
\* waited, prepared, committed and aborted sets stay as they are, also when
\* a vote or ACK timeout armed before the crash fires or the operator types
\* a vote or ack command.
C40_CrashedParticipantSilent ==
    [][\A p \in Procs :
          (p_crashed[p] /\ p_crashed'[p]) =>
             /\ waited_transactions'[p] = waited_transactions[p]
             /\ prepared_transactions'[p] = prepared_transactions[p]
             /\ committed_transactions'[p] = committed_transactions[p]
             /\ aborted_transactions'[p] = aborted_transactions[p]
             /\ ~(\E yes \in BOOLEAN : P_CancommitVote(p, yes) \/ P_PrecommitVote(p, yes))
             /\ ~(P_AckCommit(p) \/ P_AckAbort(p))
             /\ ~(\E t \in TxIds :
                    \/ P_CancommitTimeout(p, t) \/ P_PrecommitTimeout(p, t)
                    \/ P_AckCommitTimeout(p, t) \/ P_AckAbortTimeout(p, t))]_vars

====
